---- MODULE Spec2Model ----
(***************************************************************************)
(* Model of the VM-tracking text-protocol server (src/server.py).          *)
(*                                                                         *)
(* One handle_client coroutine per connection; the coroutines run on one   *)
(* asyncio event loop, so the code between two awaits is one atomic step   *)
(* and every await (readline, drain, pool round trip) is a point where the *)
(* other coroutines may run.  A token of a request line is a sequence of   *)
(* one-character strings, so int(), str.split(':', 1) and str.upper() are  *)
(* computed as Python computes them.  The last_seen column of the machines *)
(* table (a wall-clock timestamp) is not modelled.                         *)
(***************************************************************************)
EXTENDS Integers, Sequences, FiniteSets, TLC

\* Number of connections the server handles at once (handle_client workers).
NumSessions == 2

Sessions == 1..NumSessions

\* Python's None where a string is expected: no token is empty
Null == <<>>

\* Python's None where a VirtualMachine is expected: no VirtualMachine has an
\* empty vm_id
None == [vm_id |-> Null, ram |-> 0, cpu |-> 0, disks |-> <<>>, authorized |-> FALSE]

-----------------------------------------------------------------------------
(* Text: tokens are sequences of characters *)

Digits == <<"0", "1", "2", "3", "4", "5", "6", "7", "8", "9">>

LowerCase == <<"a", "b", "c", "d", "e", "f", "g", "h", "i", "j", "k", "l", "m",
               "n", "o", "p", "q", "r", "s", "t", "u", "v", "w", "x", "y", "z">>

UpperCase == <<"A", "B", "C", "D", "E", "F", "G", "H", "I", "J", "K", "L", "M",
               "N", "O", "P", "Q", "R", "S", "T", "U", "V", "W", "X", "Y", "Z">>

IsDigit(c) == \E i \in 1..Len(Digits) : Digits[i] = c

DigitVal(c) == (CHOOSE i \in 1..Len(Digits) : Digits[i] = c) - 1

\* The upper-case letter of each lower-case letter
UpperOf ==
    [c \in {LowerCase[i] : i \in 1..Len(LowerCase)} |->
        UpperCase[CHOOSE i \in 1..Len(LowerCase) : LowerCase[i] = c]]

\* str.upper(), character by character
UpperChar(c) == IF c \in DOMAIN UpperOf THEN UpperOf[c] ELSE c

Upper(tok) == [i \in 1..Len(tok) |-> UpperChar(tok[i])]

\* The part of an integer literal after its optional sign.
Unsigned(tok) ==
    IF Len(tok) > 0 /\ tok[1] \in {"+", "-"} THEN Tail(tok) ELSE tok

\* int(tok) does not raise ValueError: an optional sign, then decimal digits
\* with single underscores allowed between digits.
IsInt(tok) ==
    LET b == Unsigned(tok)
    IN  /\ Len(b) > 0
        /\ \A i \in 1..Len(b) :
              \/ IsDigit(b[i])
              \/ /\ b[i] = "_"
                 /\ 1 < i /\ i < Len(b)
                 /\ IsDigit(b[i - 1]) /\ IsDigit(b[i + 1])

RECURSIVE Magnitude(_, _)
Magnitude(b, acc) ==
    IF b = <<>> THEN acc
    ELSE IF Head(b) = "_" THEN Magnitude(Tail(b), acc)
    ELSE Magnitude(Tail(b), 10 * acc + DigitVal(Head(b)))

\* int(tok), for a token int() accepts
ParseInt(tok) ==
    IF Len(tok) > 0 /\ tok[1] = "-"
    THEN 0 - Magnitude(Unsigned(tok), 0)
    ELSE Magnitude(Unsigned(tok), 0)

\* ':' in tok
HasColon(tok) == \E i \in 1..Len(tok) : tok[i] = ":"

FirstColon(tok) == CHOOSE i \in 1..Len(tok) :
                      tok[i] = ":" /\ \A j \in 1..(i - 1) : tok[j] # ":"

\* tok.split(':', 1), for a token that holds a ':'
SplitId(tok) == SubSeq(tok, 1, FirstColon(tok) - 1)
SplitCap(tok) == SubSeq(tok, FirstColon(tok) + 1, Len(tok))

\* Faulty variant of the disk-token loop: it stops at the first token it
\* cannot parse instead of skipping it
RECURSIVE ParseDisks_Break(_)
ParseDisks_Break(toks) ==
    IF toks = <<>> THEN <<>>
    ELSE LET t == Head(toks)
         IN  IF ~HasColon(t) THEN <<>>
             ELSE IF ~IsInt(SplitCap(t)) THEN <<>>
             ELSE <<(<<SplitId(t), ParseInt(SplitCap(t))>>)>> \o ParseDisks_Break(Tail(toks))

\* The disk-token loop of ADD_VM and UPDATE_VM: the (disk_id, capacity) pairs
\* of the tokens that hold a ':' and whose capacity int() accepts, in order.
RECURSIVE ParseDisks(_)
ParseDisks(toks) ==
    IF toks = <<>> THEN <<>>
    ELSE LET t == Head(toks)
             rest == ParseDisks(Tail(toks))
         IN  IF ~HasColon(t) THEN rest
             ELSE IF ~IsInt(SplitCap(t)) THEN rest
             ELSE <<(<<SplitId(t), ParseInt(SplitCap(t))>>)>> \o rest

-----------------------------------------------------------------------------
(* commands.py, settings.py *)

AUTH            == <<"A", "U", "T", "H">>
ADD_VM          == <<"A", "D", "D", "_", "V", "M">>
LIST_CONNECTED  == <<"L", "I", "S", "T", "_", "C", "O", "N", "N", "E", "C", "T", "E", "D">>
LIST_AUTHORIZED == <<"L", "I", "S", "T", "_", "A", "U", "T", "H", "O", "R", "I", "Z", "E", "D">>
LIST_ALL        == <<"L", "I", "S", "T", "_", "A", "L", "L">>
LOGOUT          == <<"L", "O", "G", "O", "U", "T">>
UPDATE_VM       == <<"U", "P", "D", "A", "T", "E", "_", "V", "M">>
LIST_DISKS      == <<"L", "I", "S", "T", "_", "D", "I", "S", "K", "S">>
EXIT            == <<"E", "X", "I", "T">>

\* The values of the Command enumeration
Command == {AUTH, ADD_VM, LIST_CONNECTED, LIST_AUTHORIZED, LIST_ALL, LOGOUT,
            UPDATE_VM, LIST_DISKS, EXIT}

\* settings.auth_password
auth_password == <<"s", "e", "c", "r", "e", "t">>

-----------------------------------------------------------------------------
(* Request lines the clients send, already split on whitespace *)

vm1 == <<"v", "m", "1">>
vm2 == <<"v", "m", "2">>
VmIds == {vm1, vm2}

wrongpass == <<"w", "r", "o", "n", "g">>

one == <<"1">>
notnum == <<"x">>

d1_10  == <<"d", "1", ":", "1", "0">>
d1_20  == <<"d", "1", ":", "+", "2", "_", "0">>
d2     == <<"d", "2">>
d1_x   == <<"d", "1", ":", "x">>
d1_1_2 == <<"d", "1", ":", "1", ":", "2">>
d1_    == <<"d", "1", ":">>

AuthLines ==
    { <<AUTH, vm1, auth_password>>,
      <<AUTH, vm2, auth_password>>,
      <<AUTH, vm1, wrongpass>>,
      <<AUTH, vm2>> }

AddVmLines ==
    { <<ADD_VM>>,
      <<ADD_VM, vm1, one>>,
      <<ADD_VM, vm1, one, notnum>>,
      <<ADD_VM, vm1, notnum, one>>,
      <<ADD_VM, vm1, one, one>>,
      <<ADD_VM, vm1, one, one, d1_10, d2, d1_x, d1_20>>,
      <<ADD_VM, vm2, one, one, d1_10>> }

UpdateVmLines ==
    { <<UPDATE_VM>>,
      <<UPDATE_VM, one>>,
      <<UPDATE_VM, one, notnum>>,
      <<UPDATE_VM, notnum, one>>,
      <<UPDATE_VM, one, one, d1_1_2, d1_>>,
      <<UPDATE_VM, one, one, d1_x, d1_10>> }

ListLines ==
    { <<LIST_CONNECTED>>, <<LIST_AUTHORIZED>>,
      <<<<"l", "i", "s", "t", "_", "a", "l", "l">>>>, <<LIST_DISKS>> }

OtherLines == { <<LOGOUT>>, <<EXIT>>, <<<<"F", "O", "O">>>> }

\* Every request line of the model: each branch of each handler is taken
Lines == AuthLines \cup AddVmLines \cup UpdateVmLines \cup ListLines \cup OtherLines

\* The well-formed requests two clients race with
ConcurrentLines ==
    { <<AUTH, vm1, auth_password>>,
      <<AUTH, vm2, auth_password>>,
      <<ADD_VM, vm1, one, one, d1_10, d2, d1_x, d1_20>>,
      <<ADD_VM, vm2, one, one, d1_10>>,
      <<UPDATE_VM, one, one, d1_1_2, d1_>>,
      <<LIST_CONNECTED>>,
      <<LIST_DISKS>>,
      <<LOGOUT>>,
      <<<<"F", "O", "O">>>> }

\* What the second client sends while the first one sends every line of Lines
PeerLines ==
    { <<AUTH, vm1, auth_password>>,
      <<AUTH, vm2, auth_password>>,
      <<LOGOUT>> }

-----------------------------------------------------------------------------
(* State *)

VARIABLES
    pc,               \* where each handle_client coroutine is suspended
    current_vm,       \* handle_client's local current_vm: None or a VirtualMachine
    parts,            \* handle_client's local parts: the tokens of the line in hand
                      \* (<<>> while the loop awaits readline: the old line is dead)
    di,               \* add_vm_to_db: index of the next disk of vm.disks to write
    out,              \* the response lines written to the StreamWriter and not yet drained
    connected_vms,    \* ServerApp.connected_vms: vm_id -> the session whose current_vm it is
    virtual_machines, \* rows of the table virtual_machines
    disks,            \* rows of the table disks
    console           \* the internal_command_handler task (see ConsoleIdle)

vars == <<pc, current_vm, parts, di, out, connected_vms, virtual_machines, disks,
          console>>

\* The internal_command_handler task while it awaits a line of stdin.
\*   pc      where the task is: "readline", "fetch" (a store query of a LIST
\*           command), "printed" (a list is on the screen and the loop goes
\*           back to readline), "drain" and "wait_closed" (the EXIT loop),
\*           "raised" (the task ended with an exception), "stopped"
\*           (the event loop was stopped)
\*   cmd     the LIST command whose store query is awaited
\*   order   the keys of connected_vms in insertion order (a dict iterates
\*           in this order)
\*   used    EXIT's dict iterator: len(connected_vms) when the iteration began
\*   seen    EXIT's dict iterator: the entries it has passed
\*   vm      EXIT's loop variable: the session whose VirtualMachine it holds
\*   members the sessions that were in connected_vms when EXIT began
\*   sent    the sessions EXIT has written the shutdown line to
\*   closed  the open sessions whose writer EXIT has closed
\*   printed the list on the screen
ConsoleIdle ==
    [pc |-> "readline", cmd |-> Null, order |-> <<>>, used |-> 0, seen |-> {},
     vm |-> 0, members |-> {}, sent |-> {}, closed |-> {}, printed |-> <<>>]

\* VirtualMachine.__init__ (authorized is False until the caller sets it)
VirtualMachine(vm_id, ram, cpu, dsk) ==
    [vm_id |-> vm_id, ram |-> ram, cpu |-> cpu, disks |-> dsk, authorized |-> FALSE]

\* VirtualMachine.to_dict
to_dict(vm) ==
    [vm_id |-> vm.vm_id, ram |-> vm.ram, cpu |-> vm.cpu, disks |-> vm.disks,
     authorized |-> vm.authorized]

\* ServerApp.__init__: no connection yet, an empty registry; init_db: empty tables
Init ==
    /\ pc = [s \in Sessions |-> "closed"]
    /\ current_vm = [s \in Sessions |-> None]
    /\ parts = [s \in Sessions |-> <<>>]
    /\ di = [s \in Sessions |-> 0]
    /\ out = [s \in Sessions |-> <<>>]
    /\ connected_vms = <<>>
    /\ virtual_machines = {}
    /\ disks = {}
    /\ console = ConsoleIdle

-----------------------------------------------------------------------------
(* The registry and the store *)

\* Faulty variant: the registry is replaced by one that holds the new entry only
RegistryPut_Alone(reg, vm_id, s) == [k \in {vm_id} |-> s]

\* self.connected_vms[vm_id] = current_vm
RegistryPut(reg, vm_id, s) ==
    [k \in (DOMAIN reg) \cup {vm_id} |-> IF k = vm_id THEN s ELSE reg[k]]

\* self.connected_vms.pop(vm_id, None)
RegistryPop(reg, vm_id) ==
    [k \in (DOMAIN reg) \ {vm_id} |-> reg[k]]

\* Faulty variant: the machine row is not written
UpsertMachineRow_Drop(table, vm) == table

\* INSERT INTO virtual_machines ... ON CONFLICT (vm_id) DO UPDATE SET ...
UpsertMachineRow(table, vm) ==
    {r \in table : r.vm_id # vm.vm_id}
        \cup {[vm_id |-> vm.vm_id, ram |-> vm.ram, cpu |-> vm.cpu,
               authorized |-> vm.authorized]}

\* Faulty variant: the disk id is bound to $3, the owner column
UpsertDiskRow_OwnerSwapped(table, disk, vm_id) ==
    {r \in table : r.disk_id # disk[1]}
        \cup {[disk_id |-> disk[1], capacity |-> disk[2], vm_id |-> disk[1]]}

\* Faulty variant: a plain INSERT that leaves the old row of the disk in place
UpsertDiskRow_Insert(table, disk, vm_id) ==
    table \cup {[disk_id |-> disk[1], capacity |-> disk[2], vm_id |-> vm_id]}

\* INSERT INTO disks ... ON CONFLICT (disk_id) DO UPDATE SET capacity, vm_id
UpsertDiskRow(table, disk, vm_id) ==
    {r \in table : r.disk_id # disk[1]}
        \cup {[disk_id |-> disk[1], capacity |-> disk[2], vm_id |-> vm_id]}

\* What a step of a handle_client coroutine means to the event loop and to the
\* console task: the loop is running; the dict keeps its live keys in
\* insertion order (a replaced key keeps its place, a new key goes last); a
\* popped key leaves the past of EXIT's iterator; a handler that ends gives up
\* its connection, and the writer the EXIT loop holds is lost with it.
Watch ==
    /\ console.pc # "stopped"
    /\ LET live == DOMAIN connected_vms'
           kept == SelectSeq(console.order, LAMBDA k : k \in live)
           new == live \ DOMAIN connected_vms
       IN  console' = [console EXCEPT
               !.order = IF new = {} THEN kept
                         ELSE Append(kept, CHOOSE k \in new : TRUE),
               !.seen = @ \cap live,
               !.closed = {s \in @ : pc'[s] # "closed"},
               !.vm = IF @ # 0 /\ pc'[@] = "closed" THEN 0 ELSE @]

\* list_connected_vms
list_connected_vms ==
    {to_dict(current_vm[connected_vms[k]]) : k \in DOMAIN connected_vms}

\* Faulty variant: the WHERE clause is missing
list_authorized_vms_All == virtual_machines

\* list_authorized_vms: SELECT * FROM virtual_machines WHERE authorized = true
list_authorized_vms == {r \in virtual_machines : r.authorized}

\* list_all_vms: SELECT * FROM virtual_machines
list_all_vms == virtual_machines

\* list_all_disks: SELECT d.*, v.vm_id AS vm_associated FROM disks d LEFT JOIN ...
list_all_disks ==
    {[disk_id |-> d.disk_id, capacity |-> d.capacity, vm_id |-> d.vm_id,
      vm_associated |-> IF \E v \in virtual_machines : v.vm_id = d.vm_id
                        THEN d.vm_id ELSE Null] : d \in disks}

-----------------------------------------------------------------------------
(* handle_client *)

\* One response line: what it says and the vm_id it names
Response(kind, vm_id) == [kind |-> kind, vm_id |-> vm_id, rows |-> {}]

\* One response line that is a JSON array
Json(rows) == [kind |-> "Json", vm_id |-> Null, rows |-> rows]

\* The command of the line in hand: Command(parts[0].upper())
CommandOf(line) == Upper(line[1])

\* writer.write(<an error or a list>); await writer.drain(); continue
\* The line is answered at once and nothing else changes.
Reply(s, line, r) ==
    /\ pc' = [pc EXCEPT ![s] = "drain"]
    /\ parts' = [parts EXCEPT ![s] = line]
    /\ out' = [out EXCEPT ![s] = <<r>>]

\* The handler goes on to add_vm_to_db or to a store query before it answers.
Await(s, line, where) ==
    /\ pc' = [pc EXCEPT ![s] = where]
    /\ parts' = [parts EXCEPT ![s] = line]
    /\ out' = [out EXCEPT ![s] = <<>>]

\* Faulty variants of the identity check: one that never sees an identity,
\* one that always sees one
Bound_Never(s) == FALSE
Bound_Always(s) == TRUE

\* current_vm is not None
Bound(s) == current_vm[s] # None

\* Faulty variant: any password is accepted
PasswordOk_Any(password) == TRUE

\* password == self.settings.auth_password
PasswordOk(password) == password = auth_password

\* Faulty variant: the id argument of ADD_VM is not compared with the bound id
IsOwnVm_Any(s, vm_id) == TRUE

\* parts[1] == current_vm.vm_id
IsOwnVm(s, vm_id) == vm_id = current_vm[s].vm_id

\* except Exception / finally: the registry entry of the bound id is popped
\* and the writer closed; the coroutine ends.
Finally(s) ==
    /\ connected_vms' = IF Bound(s)
                        THEN RegistryPop(connected_vms, current_vm[s].vm_id)
                        ELSE connected_vms
    /\ current_vm' = [current_vm EXCEPT ![s] = None]
    /\ pc' = [pc EXCEPT ![s] = "closed"]

\* asyncio.start_server calls handle_client for a new connection
Connect(s) ==
    /\ pc[s] = "closed"
    /\ pc' = [pc EXCEPT ![s] = "read"]
    /\ current_vm' = [current_vm EXCEPT ![s] = None]
    /\ parts' = [parts EXCEPT ![s] = <<>>]
    /\ out' = [out EXCEPT ![s] = <<>>]
    /\ UNCHANGED <<di, connected_vms, virtual_machines, disks>>
    /\ Watch

\* readline returns b'': break, then the finally block
Eof(s) ==
    /\ pc[s] = "read"
    /\ Finally(s)
    /\ UNCHANGED <<parts, di, out, virtual_machines, disks>>
    /\ Watch

\* Command(...) raises ValueError, or the command is one no branch handles (EXIT)
UnknownCommand(s, line) ==
    /\ pc[s] = "read"
    /\ CommandOf(line) \notin Command \/ CommandOf(line) = EXIT
    /\ Reply(s, line, Response("UnknownCommand", Null))
    /\ UNCHANGED <<current_vm, di, connected_vms, virtual_machines, disks>>
    /\ Watch

\* AUTH <vm_id> <password>
Auth(s, line) ==
    /\ pc[s] = "read"
    /\ CommandOf(line) = AUTH
    /\ IF Len(line) < 3
       THEN /\ Reply(s, line, Response("MissingArguments", Null))
            /\ UNCHANGED <<current_vm, connected_vms>>
       ELSE IF ~PasswordOk(line[3])
       THEN /\ Reply(s, line, Response("BadPassword", Null))
            /\ UNCHANGED <<current_vm, connected_vms>>
       ELSE IF Bound(s)
       THEN /\ Reply(s, line, Response("AlreadyAuthenticated", Null))
            /\ UNCHANGED <<current_vm, connected_vms>>
       ELSE /\ current_vm' = [current_vm EXCEPT ![s] =
                   [VirtualMachine(line[2], 0, 0, <<>>) EXCEPT !.authorized = TRUE]]
            /\ connected_vms' = RegistryPut(connected_vms, line[2], s)
            /\ Await(s, line, "upsert_vm")
    /\ UNCHANGED <<di, virtual_machines, disks>>
    /\ Watch

\* ADD_VM <vm_id> <ram> <cpu> [<disk_id>:<capacity> ...]
AddVm(s, line) ==
    /\ pc[s] = "read"
    /\ CommandOf(line) = ADD_VM
    /\ IF ~Bound(s)
       THEN /\ Reply(s, line, Response("NotAuthenticated", Null))
            /\ UNCHANGED <<current_vm, connected_vms>>
       ELSE IF Len(line) < 2
       THEN \* parts[1] raises IndexError
            /\ Finally(s)
            /\ parts' = [parts EXCEPT ![s] = line]
            /\ out' = [out EXCEPT ![s] = <<>>]
       ELSE IF ~IsOwnVm(s, line[2])
       THEN /\ Reply(s, line, Response("Forbidden", Null))
            /\ UNCHANGED <<current_vm, connected_vms>>
       ELSE IF Len(line) < 4
       THEN /\ Reply(s, line, Response("MissingArguments", Null))
            /\ UNCHANGED <<current_vm, connected_vms>>
       ELSE IF ~IsInt(line[3]) \/ ~IsInt(line[4])
       THEN /\ Reply(s, line, Response("BadNumber", Null))
            /\ UNCHANGED <<current_vm, connected_vms>>
       ELSE /\ current_vm' = [current_vm EXCEPT
                   ![s].ram = ParseInt(line[3]),
                   ![s].cpu = ParseInt(line[4]),
                   ![s].disks = ParseDisks(SubSeq(line, 5, Len(line)))]
            /\ Await(s, line, "upsert_vm")
            /\ UNCHANGED connected_vms
    /\ UNCHANGED <<di, virtual_machines, disks>>
    /\ Watch

\* UPDATE_VM <ram> <cpu> [<disk_id>:<capacity> ...]
UpdateVm(s, line) ==
    /\ pc[s] = "read"
    /\ CommandOf(line) = UPDATE_VM
    /\ IF ~Bound(s)
       THEN /\ Reply(s, line, Response("NotAuthenticated", Null))
            /\ UNCHANGED current_vm
       ELSE IF Len(line) < 3
       THEN /\ Reply(s, line, Response("MissingArguments", Null))
            /\ UNCHANGED current_vm
       ELSE IF ~IsInt(line[2])
       THEN /\ Reply(s, line, Response("BadNumber", Null))
            /\ UNCHANGED current_vm
       ELSE IF ~IsInt(line[3])
       THEN \* current_vm.ram is assigned before int(parts[2]) raises
            /\ current_vm' = [current_vm EXCEPT ![s].ram = ParseInt(line[2])]
            /\ Reply(s, line, Response("BadNumber", Null))
       ELSE LET parsed == ParseDisks(SubSeq(line, 4, Len(line)))
            IN  /\ current_vm' = [current_vm EXCEPT
                       ![s].ram = ParseInt(line[2]),
                       ![s].cpu = ParseInt(line[3]),
                       ![s].disks = IF parsed # <<>> THEN parsed ELSE @]
                /\ Await(s, line, "upsert_vm")
    /\ UNCHANGED <<di, connected_vms, virtual_machines, disks>>
    /\ Watch

\* LIST_CONNECTED: answered from the registry, with no await before the write
ListConnected(s, line) ==
    /\ pc[s] = "read"
    /\ CommandOf(line) = LIST_CONNECTED
    /\ Reply(s, line, Json(list_connected_vms))
    /\ UNCHANGED <<current_vm, di, connected_vms, virtual_machines, disks>>
    /\ Watch

\* LIST_AUTHORIZED, LIST_ALL, LIST_DISKS: the handler awaits the store
ListStore(s, line) ==
    /\ pc[s] = "read"
    /\ CommandOf(line) \in {LIST_AUTHORIZED, LIST_ALL, LIST_DISKS}
    /\ Await(s, line, "fetch")
    /\ UNCHANGED <<current_vm, di, connected_vms, virtual_machines, disks>>
    /\ Watch

\* conn.fetch returns; the rows are written as one JSON line
Fetch(s) ==
    /\ pc[s] = "fetch"
    /\ LET rows == CASE CommandOf(parts[s]) = LIST_AUTHORIZED -> list_authorized_vms
                     [] CommandOf(parts[s]) = LIST_ALL -> list_all_vms
                     [] OTHER -> list_all_disks
       IN  out' = [out EXCEPT ![s] = <<Json(rows)>>]
    /\ pc' = [pc EXCEPT ![s] = "drain"]
    /\ UNCHANGED <<current_vm, parts, di, connected_vms, virtual_machines, disks>>
    /\ Watch

\* LOGOUT
Logout(s, line) ==
    /\ pc[s] = "read"
    /\ CommandOf(line) = LOGOUT
    /\ IF Bound(s)
       THEN /\ current_vm' = [current_vm EXCEPT ![s].authorized = FALSE]
            /\ Await(s, line, "upsert_vm")
       ELSE /\ Reply(s, line, Response("NotAuthenticated", Null))
            /\ UNCHANGED current_vm
    /\ UNCHANGED <<di, connected_vms, virtual_machines, disks>>
    /\ Watch

\* The line written once add_vm_to_db has returned
Confirmation(s) ==
    CASE CommandOf(parts[s]) = AUTH -> Response("Authenticated", current_vm[s].vm_id)
      [] CommandOf(parts[s]) = ADD_VM -> Response("Added", current_vm[s].vm_id)
      [] CommandOf(parts[s]) = UPDATE_VM -> Response("Updated", current_vm[s].vm_id)
      [] OTHER -> Response("LoggedOut", current_vm[s].vm_id)

\* add_vm_to_db returns: the connection goes back to the pool and the
\* confirmation is written
Confirm(s) ==
    /\ pc' = [pc EXCEPT ![s] = "drain"]
    /\ out' = [out EXCEPT ![s] = Append(@, Confirmation(s))]

\* add_vm_to_db: the upsert of the machine row
UpsertMachine(s) ==
    /\ pc[s] = "upsert_vm"
    /\ virtual_machines' = UpsertMachineRow(virtual_machines, current_vm[s])
    /\ IF current_vm[s].disks = <<>>
       THEN Confirm(s) /\ UNCHANGED di
       ELSE /\ pc' = [pc EXCEPT ![s] = "upsert_disk"]
            /\ di' = [di EXCEPT ![s] = 1]
            /\ UNCHANGED out
    /\ UNCHANGED <<current_vm, parts, connected_vms, disks>>
    /\ Watch

\* add_vm_to_db: the upsert of one disk row of vm.disks
UpsertDisk(s) ==
    /\ pc[s] = "upsert_disk"
    /\ disks' = UpsertDiskRow(disks, current_vm[s].disks[di[s]], current_vm[s].vm_id)
    /\ IF di[s] = Len(current_vm[s].disks)
       THEN Confirm(s) /\ di' = [di EXCEPT ![s] = 0]
       ELSE /\ di' = [di EXCEPT ![s] = @ + 1]
            /\ UNCHANGED <<pc, out>>
    /\ UNCHANGED <<current_vm, parts, connected_vms, virtual_machines>>
    /\ Watch

\* await writer.drain() returns.  After a LOGOUT confirmation the registry
\* entry is popped and current_vm cleared; then the loop awaits readline.
Drained(s) ==
    /\ pc[s] = "drain"
    /\ pc' = [pc EXCEPT ![s] = "read"]
    /\ IF CommandOf(parts[s]) = LOGOUT /\ Bound(s)
       THEN /\ connected_vms' = RegistryPop(connected_vms, current_vm[s].vm_id)
            /\ current_vm' = [current_vm EXCEPT ![s] = None]
       ELSE UNCHANGED <<current_vm, connected_vms>>
    /\ parts' = [parts EXCEPT ![s] = <<>>]
    /\ out' = [out EXCEPT ![s] = <<>>]
    /\ UNCHANGED <<di, virtual_machines, disks>>
    /\ Watch

\* One iteration of the read loop up to its first await, on a given line
Handle(s, line) ==
    \/ UnknownCommand(s, line)
    \/ Auth(s, line)
    \/ AddVm(s, line)
    \/ UpdateVm(s, line)
    \/ ListConnected(s, line)
    \/ ListStore(s, line)
    \/ Logout(s, line)

\* A suspended handler resumes
Resume(s) ==
    \/ Fetch(s)
    \/ UpsertMachine(s)
    \/ UpsertDisk(s)
    \/ Drained(s)

\* Clients that connect, send well-formed requests concurrently and disconnect;
\* the operator types nothing
Next ==
    \E s \in Sessions :
        \/ Connect(s)
        \/ Eof(s)
        \/ \E line \in ConcurrentLines : Handle(s, line)
        \/ Resume(s)

Spec == Init /\ [][Next]_vars

\* One client that sends every line of Lines, well-formed or not, while the
\* other clients authenticate and log out
NextProtocol ==
    \E s \in Sessions :
        \/ Connect(s)
        \/ Eof(s)
        \/ \E line \in (IF s = 1 THEN Lines ELSE PeerLines) : Handle(s, line)
        \/ Resume(s)

SpecProtocol == Init /\ [][NextProtocol]_vars

\* Clients that connect, authenticate with the right password and take
\* LIST_CONNECTED snapshots; nobody logs out or disconnects
AuthRaceLines ==
    { <<AUTH, vm1, auth_password>>,
      <<AUTH, vm2, auth_password>>,
      <<LIST_CONNECTED>> }

NextAuthRace ==
    \E s \in Sessions :
        \/ Connect(s)
        \/ \E line \in AuthRaceLines : Auth(s, line) \/ ListConnected(s, line)
        \/ UpsertMachine(s)
        \/ Drained(s)

SpecAuthRace == Init /\ [][NextAuthRace]_vars

-----------------------------------------------------------------------------
(* Failures of the durable store *)

\* db_pool.acquire(), conn.execute() or conn.fetch() raises: the exception
\* leaves add_vm_to_db or the list method, nothing is written to the client,
\* and except Exception / finally end the handler.  A failure at the machine
\* upsert leaves no write of this command behind; a failure at a disk upsert
\* leaves the machine row and the disks before it written.
StoreFailure(s) ==
    /\ pc[s] \in {"upsert_vm", "upsert_disk", "fetch"}
    /\ Finally(s)
    /\ parts' = [parts EXCEPT ![s] = <<>>]
    /\ di' = [di EXCEPT ![s] = 0]
    /\ UNCHANGED <<out, virtual_machines, disks>>
    /\ Watch

\* The requests that go to the store, and the one that shows the registry
FailureLines ==
    { <<AUTH, vm1, auth_password>>,
      <<AUTH, vm2, auth_password>>,
      <<ADD_VM, vm1, one, one, d1_10, d2, d1_x, d1_20>>,
      <<ADD_VM, vm2, one, one, d1_10>>,
      <<LIST_CONNECTED>>,
      <<LIST_DISKS>>,
      <<LOGOUT>> }

\* Clients that connect, send these requests and disconnect, with a store
\* that may fail at any of its round trips
NextFailure ==
    \E s \in Sessions :
        \/ Connect(s)
        \/ Eof(s)
        \/ \E line \in FailureLines :
              \/ Auth(s, line)
              \/ AddVm(s, line)
              \/ ListConnected(s, line)
              \/ ListStore(s, line)
              \/ Logout(s, line)
        \/ Resume(s)
        \/ StoreFailure(s)

SpecFailure == Init /\ [][NextFailure]_vars

-----------------------------------------------------------------------------
(* internal_command_handler: the operator console *)

\* What the operator types to stop the server
ExitCommands == { EXIT, <<"e", "x", "i", "t">> }

\* What the operator types to look at the inventory
ListCommands ==
    { LIST_CONNECTED, <<"l", "i", "s", "t", "_", "a", "l", "l">>, LIST_AUTHORIZED,
      LIST_ALL, LIST_DISKS, <<"F", "O", "O">> }

\* vm.writer.write("Сервер закрывается\n")
Shutdown == Response("Shutdown", Null)

\* di_used != ma_used: the dict has another size than when the iteration began
SizeChanged(c) == Cardinality(DOMAIN connected_vms) # c.used

\* for vm in self.connected_vms.values(): the iterator is asked for the next
\* value.  It raises RuntimeError when the size of the dict has changed;
\* else it gives the next entry in insertion order, to which the shutdown
\* line is written; with no entry left, asyncio.get_event_loop().stop().
ExitNext(c) ==
    LET ahead == SelectSeq(c.order, LAMBDA k : k \notin c.seen)
    IN  IF SizeChanged(c)
        THEN /\ console' = [c EXCEPT !.pc = "raised", !.vm = 0, !.used = 0, !.seen = {}]
             /\ UNCHANGED out
        ELSE IF ahead = <<>>
        THEN /\ console' = [c EXCEPT !.pc = "stopped", !.vm = 0, !.used = 0, !.seen = {}]
             /\ UNCHANGED out
        ELSE LET s == connected_vms[Head(ahead)]
             IN  /\ console' = [c EXCEPT !.pc = "drain", !.vm = s,
                                         !.seen = @ \cup {Head(ahead)},
                                         !.sent = @ \cup {s}]
                 /\ out' = [out EXCEPT ![s] = Append(@, Shutdown)]

\* EXIT is typed: the loop over connected_vms.values() begins
ConsoleExit(cmd) ==
    /\ console.pc = "readline"
    /\ Upper(cmd) = EXIT
    /\ ExitNext([console EXCEPT
                    !.used = Cardinality(DOMAIN connected_vms),
                    !.seen = {},
                    !.members = {connected_vms[k] : k \in DOMAIN connected_vms},
                    !.sent = {}])
    /\ UNCHANGED <<pc, current_vm, parts, di, connected_vms, virtual_machines, disks>>

\* await vm.writer.drain() returns, or raises ConnectionResetError when the
\* connection was lost meanwhile (nothing catches it: the task ends);
\* then vm.writer.close()
ExitDrained ==
    /\ console.pc = "drain"
    /\ IF console.vm = 0
       THEN /\ console' = [console EXCEPT !.pc = "raised", !.used = 0, !.seen = {}]
            /\ UNCHANGED out
       ELSE /\ console' = [console EXCEPT !.pc = "wait_closed",
                                          !.closed = @ \cup {console.vm}]
            /\ out' = [out EXCEPT ![console.vm] = <<>>]
    /\ UNCHANGED <<pc, current_vm, parts, di, connected_vms, virtual_machines, disks>>

\* await vm.writer.wait_closed() returns; the loop goes on
ExitClosed ==
    /\ console.pc = "wait_closed"
    /\ ExitNext(console)
    /\ UNCHANGED <<pc, current_vm, parts, di, connected_vms, virtual_machines, disks>>

\* LIST_CONNECTED, LIST_AUTHORIZED, LIST_ALL or LIST_DISKS is typed: the
\* registry is printed at once, a store query is awaited; any other line that
\* is not EXIT prints the unknown-command text
ConsoleList(cmd) ==
    /\ console.pc = "readline"
    /\ Upper(cmd) # EXIT
    /\ console' =
          IF Upper(cmd) = LIST_CONNECTED
          THEN [console EXCEPT !.pc = "printed",
                               !.printed = <<Json(list_connected_vms)>>]
          ELSE IF Upper(cmd) \in {LIST_AUTHORIZED, LIST_ALL, LIST_DISKS}
          THEN [console EXCEPT !.cmd = cmd, !.pc = "fetch"]
          ELSE [console EXCEPT !.pc = "printed",
                               !.printed = <<Response("UnknownCommand", Null)>>]
    /\ UNCHANGED <<pc, current_vm, parts, di, out, connected_vms, virtual_machines, disks>>

\* conn.fetch returns to the console task; the rows are printed
ConsoleFetch ==
    /\ console.pc = "fetch"
    /\ LET rows == CASE Upper(console.cmd) = LIST_AUTHORIZED -> list_authorized_vms
                     [] Upper(console.cmd) = LIST_ALL -> list_all_vms
                     [] OTHER -> list_all_disks
       IN  console' = [console EXCEPT !.pc = "printed", !.printed = <<Json(rows)>>]
    /\ UNCHANGED <<pc, current_vm, parts, di, out, connected_vms, virtual_machines, disks>>

\* while True: the task awaits the next line of stdin
ConsoleAwait ==
    /\ console.pc = "printed"
    /\ console' = [console EXCEPT !.pc = "readline", !.cmd = Null, !.printed = <<>>]
    /\ UNCHANGED <<pc, current_vm, parts, di, out, connected_vms, virtual_machines, disks>>

\* A handler whose writer the EXIT loop has closed finds the connection lost
\* when it drains its response: ConnectionResetError, and the finally block
ConnectionReset(s) ==
    /\ pc[s] = "drain"
    /\ s \in console.closed
    /\ Finally(s)
    /\ parts' = [parts EXCEPT ![s] = <<>>]
    /\ out' = [out EXCEPT ![s] = <<>>]
    /\ UNCHANGED <<di, virtual_machines, disks>>
    /\ Watch

\* What the first client sends while the operator looks at the inventory
InventoryLines ==
    { <<AUTH, vm1, auth_password>>,
      <<ADD_VM, vm1, one, one, d1_10>>,
      <<UPDATE_VM, one, one>>,
      <<LIST_CONNECTED>>,
      <<LIST_AUTHORIZED>>,
      <<LIST_ALL>>,
      <<LIST_DISKS>>,
      <<LOGOUT>>,
      <<EXIT>> }

\* What the other clients send meanwhile
InventoryPeerLines ==
    { <<AUTH, vm2, auth_password>>,
      <<LOGOUT>> }

\* The server with its operator: one client sends the lines of
\* InventoryLines, the others authenticate and log out, and the operator
\* types LIST commands
NextConsole ==
    \/ \E s \in Sessions :
          \/ Connect(s)
          \/ Eof(s)
          \/ \E line \in (IF s = 1 THEN InventoryLines ELSE InventoryPeerLines) :
                Handle(s, line)
          \/ Resume(s)
    \/ \E cmd \in ListCommands : ConsoleList(cmd)
    \/ ConsoleFetch
    \/ ConsoleAwait

SpecConsole == Init /\ [][NextConsole]_vars

\* What the clients send while the operator stops the server
ExitLines ==
    { <<AUTH, vm1, auth_password>>,
      <<AUTH, vm2, auth_password>>,
      <<LIST_CONNECTED>>,
      <<LOGOUT>> }

\* The server while the operator types EXIT: clients connect, authenticate,
\* list, log out and disconnect; nothing runs once the event loop is stopped
NextExit ==
    \/ \E s \in Sessions :
          \/ Connect(s)
          \/ Eof(s)
          \/ \E line \in ExitLines :
                Auth(s, line) \/ ListConnected(s, line) \/ Logout(s, line)
          \/ UpsertMachine(s)
          \/ Drained(s)
          \/ ConnectionReset(s)
    \/ \E cmd \in ExitCommands : ConsoleExit(cmd)
    \/ ExitDrained
    \/ ExitClosed

SpecExit == Init /\ [][NextExit]_vars

-----------------------------------------------------------------------------
(* Properties *)

\* Session s has a bound machine identity
HasIdentity(s) == current_vm[s] # None

\* The step in which session s reads a request line and runs its handler up to
\* the first await; the line is parts'[s]
ReadsLine(s) == pc[s] = "read" /\ parts'[s] # <<>>

\* The registry, the store and every session's machine are left as they were
NoStateChange == UNCHANGED <<current_vm, connected_vms, virtual_machines, disks>>

\* An ADD_VM or UPDATE_VM with too few tokens or a ram or cpu that is no integer
Malformed(line) ==
    \/ /\ CommandOf(line) = ADD_VM
       /\ (Len(line) < 4 \/ ~IsInt(line[3]) \/ ~IsInt(line[4]))
    \/ /\ CommandOf(line) = UPDATE_VM
       /\ (Len(line) < 3 \/ ~IsInt(line[2]) \/ ~IsInt(line[3]))

\* C1: a malformed ADD_VM or UPDATE_VM (too few tokens, or a ram or cpu token
\* that is not an integer, in either position) leaves the fields of the
\* session's machine and every machine and disk row of the store unchanged.
\* (A session the command closes has no machine left to compare.)
C1_MalformedChangesNothing ==
    [][\A s \in Sessions :
          ReadsLine(s) /\ Malformed(parts'[s])
              => /\ current_vm'[s] \in {current_vm[s], None}
                 /\ UNCHANGED <<virtual_machines, disks>>]_vars

\* The commands other than AUTH and LOGOUT
GatedCommands == {ADD_VM, UPDATE_VM, LIST_CONNECTED, LIST_AUTHORIZED, LIST_ALL, LIST_DISKS}

\* A step of the handling of a request by a session that has no identity
UnauthenticatedStep(s) ==
    /\ ~HasIdentity(s)
    /\ pc[s] \in {"read", "fetch"}
    /\ pc'[s] # pc[s]
    /\ parts'[s] # <<>>

NotAuthenticatedLine == [kind |-> "NotAuthenticated", vm_id |-> Null, rows |-> {}]

C3_AuthWhenBoundChangesNothing ==
    [][\A s \in Sessions :
          ReadsLine(s) /\ CommandOf(parts'[s]) = AUTH /\ HasIdentity(s)
              => /\ NoStateChange
                 /\ pc'[s] = "drain"
                 /\ Len(out'[s]) = 1]_vars

\* A bound session was sent AUTH with another id and the right password, and
\* its registry entry is still its own
C3_Witness ==
    \E s \in Sessions :
        /\ pc[s] = "drain"
        /\ HasIdentity(s)
        /\ CommandOf(parts[s]) = AUTH
        /\ Len(parts[s]) >= 3
        /\ parts[s][2] # current_vm[s].vm_id
        /\ parts[s][3] = auth_password
        /\ out[s][1].kind = "AlreadyAuthenticated"
        /\ current_vm[s].vm_id \in DOMAIN connected_vms
        /\ connected_vms[current_vm[s].vm_id] = s

BadPasswordLine == [kind |-> "BadPassword", vm_id |-> Null, rows |-> {}]

\* C4: a session gets a bound identity only in a step that reads an AUTH whose
\* password is the configured secret; an AUTH with another password read by
\* an unauthenticated session is answered with the bad-password failure,
\* leaves the session unauthenticated and the registry and the store as they
\* were; and an ADD_VM read by an unauthenticated session (so also the one
\* that follows the refused AUTH) is answered not-authenticated.
C4_OnlySecretAuthenticates ==
    [][\A s \in Sessions :
          /\ (~HasIdentity(s) /\ HasIdentity(s)')
                => (/\ ReadsLine(s)
                    /\ CommandOf(parts'[s]) = AUTH
                    /\ Len(parts'[s]) >= 3
                    /\ parts'[s][3] = <<"s", "e", "c", "r", "e", "t">>)
          /\ (/\ ReadsLine(s) /\ ~HasIdentity(s)
              /\ CommandOf(parts'[s]) = AUTH
              /\ Len(parts'[s]) >= 3
              /\ parts'[s][3] # <<"s", "e", "c", "r", "e", "t">>)
                => (/\ pc'[s] = "drain"
                    /\ out'[s] = <<BadPasswordLine>>
                    /\ NoStateChange)
          /\ (ReadsLine(s) /\ ~HasIdentity(s) /\ CommandOf(parts'[s]) = ADD_VM)
                => (/\ pc'[s] = "drain"
                    /\ out'[s] = <<NotAuthenticatedLine>>
                    /\ NoStateChange)]_vars

\* AUTH vm1 with a wrong password was refused: the session has no identity,
\* vm1 is neither in the registry nor in the store
C4_Witness ==
    \E s \in Sessions :
        /\ pc[s] = "drain"
        /\ CommandOf(parts[s]) = AUTH
        /\ parts[s][2] = vm1
        /\ out[s] = <<BadPasswordLine>>
        /\ ~HasIdentity(s)
        /\ vm1 \notin DOMAIN connected_vms
        /\ \A r \in virtual_machines : r.vm_id # vm1

ForbiddenLine == [kind |-> "Forbidden", vm_id |-> Null, rows |-> {}]

\* C5: while a session has a bound identity its vm_id does not change (it can
\* only be dropped, by LOGOUT or by the end of the connection), and an ADD_VM
\* whose id argument differs from the bound id is answered Forbidden and
\* changes no machine, no registry entry and no store row.
C5_BoundIdIsFixed ==
    [][\A s \in Sessions :
          /\ (HasIdentity(s) /\ HasIdentity(s)')
                => current_vm'[s].vm_id = current_vm[s].vm_id
          /\ (/\ ReadsLine(s) /\ HasIdentity(s)
              /\ CommandOf(parts'[s]) = ADD_VM
              /\ Len(parts'[s]) >= 2
              /\ parts'[s][2] # current_vm[s].vm_id)
                => (/\ pc'[s] = "drain"
                    /\ out'[s] = <<ForbiddenLine>>
                    /\ NoStateChange)]_vars

\* A session bound to one id was sent a complete ADD_VM for the other id and
\* refused it
C5_Witness ==
    \E s \in Sessions :
        /\ pc[s] = "drain"
        /\ HasIdentity(s)
        /\ CommandOf(parts[s]) = ADD_VM
        /\ Len(parts[s]) >= 5
        /\ parts[s][2] \in VmIds \ {current_vm[s].vm_id}
        /\ out[s] = <<ForbiddenLine>>

\* A disk token is well formed: it holds a ':' and what follows the first ':'
\* is an integer
WellFormedDisk(tok) ==
    \E i \in 1..Len(tok) :
        /\ tok[i] = ":"
        /\ \A j \in 1..(i - 1) : tok[j] # ":"
        /\ IsInt(SubSeq(tok, i + 1, Len(tok)))

\* The (id, capacity) pair of a well-formed disk token
DiskPair(tok) ==
    LET i == CHOOSE k \in 1..Len(tok) : tok[k] = ":" /\ \A j \in 1..(k - 1) : tok[j] # ":"
    IN  <<SubSeq(tok, 1, i - 1), ParseInt(SubSeq(tok, i + 1, Len(tok)))>>

\* The pairs of the well-formed tokens among toks, in order of appearance
WellFormedDisks(toks) ==
    LET kept == SelectSeq(toks, WellFormedDisk)
    IN  [i \in 1..Len(kept) |-> DiskPair(kept[i])]

\* C6: an ADD_VM that passes its checks sets the disk list to the pairs of its
\* well-formed tokens, in order, even when there is none; an UPDATE_VM that
\* passes its checks sets it to those pairs when there is at least one and
\* leaves the disk list as it was otherwise.
C6_DiskListReplacement ==
    [][\A s \in Sessions :
          ReadsLine(s) /\ pc'[s] = "upsert_vm"
              => /\ CommandOf(parts'[s]) = ADD_VM
                    => current_vm'[s].disks =
                           WellFormedDisks(SubSeq(parts'[s], 5, Len(parts'[s])))
                 /\ CommandOf(parts'[s]) = UPDATE_VM
                    => LET given == WellFormedDisks(SubSeq(parts'[s], 4, Len(parts'[s])))
                       IN  current_vm'[s].disks =
                               IF given # <<>> THEN given ELSE current_vm[s].disks]_vars

\* ADD_VM vm1 1 1 d1:10 d2 d1:x d1:+2_0 was accepted: the disk list is
\* (d1, 10), (d1, 20)
C6_Witness ==
    \E s \in Sessions :
        /\ pc[s] = "upsert_vm"
        /\ parts[s] = <<ADD_VM, vm1, one, one, d1_10, d2, d1_x, d1_20>>
        /\ current_vm[s].disks = << <<(<<"d", "1">>), 10>>, <<(<<"d", "1">>), 20>> >>

\* C7: when the handling of a LOGOUT of machine m is complete (the answer is
\* drained and the handler is back at readline), m is absent from the
\* LIST_CONNECTED snapshot and the row of m is in LIST_ALL with
\* authorized = false, whatever the other sessions did meanwhile.
C7_LoggedOutIsGoneAndUnauthorized ==
    [][\A s \in Sessions :
          (/\ pc[s] = "drain" /\ pc'[s] = "read"
           /\ CommandOf(parts[s]) = LOGOUT
           /\ HasIdentity(s))
              => LET m == current_vm[s].vm_id
                 IN  /\ \A r \in list_connected_vms' : r.vm_id # m
                     /\ \E r \in list_all_vms' : r.vm_id = m /\ ~r.authorized]_vars

\* The AUTH of session s has been answered with success
AuthAnswered(s) == HasIdentity(s) /\ pc[s] \in {"drain", "read"}

\* The machine ids of a LIST_CONNECTED snapshot
ConnectedIds == {r.vm_id : r \in list_connected_vms}

\* C8: when sessions authenticate concurrently with the right password, every
\* AUTH read by a session without identity goes on to the upsert and is
\* confirmed with the id it names, and once two sessions with distinct ids
\* have their confirmations a LIST_CONNECTED snapshot holds both ids.
C8_ConcurrentAuthBothConnected ==
    /\ [](\A s, t \in Sessions :
             (/\ AuthAnswered(s) /\ AuthAnswered(t)
              /\ current_vm[s].vm_id # current_vm[t].vm_id)
                => {current_vm[s].vm_id, current_vm[t].vm_id} \subseteq ConnectedIds)
    /\ [][\A s \in Sessions :
             /\ (ReadsLine(s) /\ CommandOf(parts'[s]) = AUTH /\ ~HasIdentity(s))
                   => (/\ pc'[s] = "upsert_vm"
                       /\ current_vm'[s].vm_id = parts'[s][2]
                       /\ current_vm'[s].authorized)
             /\ (pc[s] = "upsert_vm" /\ pc'[s] # "upsert_vm")
                   => (/\ pc'[s] = "drain"
                       /\ Len(out'[s]) = 1
                       /\ out'[s][1].kind = "Authenticated"
                       /\ out'[s][1].vm_id = parts[s][2])]_vars

\* Both sessions are authenticated, one as vm1 and one as vm2, and one of them
\* has just been sent a LIST_CONNECTED array that holds both
C8_Witness ==
    \E s, t \in Sessions :
        /\ AuthAnswered(s) /\ AuthAnswered(t)
        /\ current_vm[s].vm_id = vm1
        /\ current_vm[t].vm_id = vm2
        /\ pc[s] = "drain"
        /\ CommandOf(parts[s]) = LIST_CONNECTED
        /\ {r.vm_id : r \in out[s][1].rows} = {vm1, vm2}

\* The table disks holds at most one row per disk identifier
DiskIdsUnique == \A r1, r2 \in disks : r1.disk_id = r2.disk_id => r1 = r2

\* The well-formed disk tokens of the ADD_VM or UPDATE_VM line in hand
DisksNamed(line) ==
    IF CommandOf(line) = ADD_VM
    THEN WellFormedDisks(SubSeq(line, 5, Len(line)))
    ELSE WellFormedDisks(SubSeq(line, 4, Len(line)))

WritesDisk(s) == pc[s] = "upsert_disk" /\ (pc'[s] # pc[s] \/ di'[s] # di[s])

ProtocolError(line) ==
    \/ CommandOf(line) \notin Command
    \/ CommandOf(line) = AUTH /\ Len(line) < 3
    \/ Malformed(line)

\* C10: every protocol error, whatever the number of tokens and whether or
\* not the session is authenticated, is answered with exactly one response
\* line and the handler goes on to drain and to the next readline: it never
\* closes the connection.
C10_ProtocolErrorKeepsConnection ==
    [][\A s \in Sessions :
          (ReadsLine(s) /\ ProtocolError(parts'[s]))
              => pc'[s] = "drain" /\ Len(out'[s]) = 1]_vars

\* C11: the console EXIT, once started, runs to completion as one sequence:
\* the console task never ends with the server still serving, and when it
\* stops the event loop every session that was in the registry when EXIT
\* began has been sent the shutdown line and has had its writer closed (or
\* its handler has ended), also when the handlers of the closed sessions pop
\* their registry entries while the loop is still iterating.
C11_ExitRunsToCompletion ==
    /\ console.pc # "raised"
    /\ console.pc = "stopped"
          => \A s \in console.members :
                /\ s \in console.sent
                /\ s \in console.closed \/ pc[s] = "closed"

\* Some session has machine m as its bound identity
BoundTo(m) == \E s \in Sessions : HasIdentity(s) /\ current_vm[s].vm_id = m

\* C12: a machine is listed by LIST_AUTHORIZED only between a successful AUTH
\* and the LOGOUT or disconnect of the session bound to it: once no session
\* is bound to the id (each has logged out, or its connection was lost and
\* cleaned up), the store does not list the machine as authorized.
C12_AuthorizedOnlyWhileBound ==
    \A r \in list_authorized_vms : BoundTo(r.vm_id)

\* C13: in every state (each is one another worker can take a LIST_CONNECTED
\* snapshot in) every registry entry is the record of a machine that is
\* authenticated (the record is the bound identity of a session and has
\* authorized = true) and connected (the connection of that session is open:
\* its handler runs and nobody has closed its writer).
C13_RegistryHoldsLiveAuthenticated ==
    \A k \in DOMAIN connected_vms :
        LET s == connected_vms[k]
        IN  /\ HasIdentity(s)
            /\ current_vm[s].vm_id = k
            /\ current_vm[s].authorized
            /\ pc[s] # "closed"
            /\ s \notin console.closed

\* The responses a command can be answered with
Answers(cmd) ==
    CASE cmd = AUTH -> {"MissingArguments", "BadPassword", "AlreadyAuthenticated",
                        "Authenticated"}
      [] cmd = ADD_VM -> {"NotAuthenticated", "Forbidden", "MissingArguments",
                          "BadNumber", "Added"}
      [] cmd = UPDATE_VM -> {"NotAuthenticated", "MissingArguments", "BadNumber",
                             "Updated"}
      [] cmd \in {LIST_CONNECTED, LIST_AUTHORIZED, LIST_ALL, LIST_DISKS} -> {"Json"}
      [] cmd = LOGOUT -> {"NotAuthenticated", "LoggedOut"}
      [] OTHER -> {"UnknownCommand"}

\* The step in which session s is done with the request line in hand: it goes
\* back to readline or its handler ends
LineDone(s) ==
    /\ pc[s] # "closed"
    /\ pc'[s] \in {"read", "closed"}
    /\ parts[s] # <<>> \/ parts'[s] # <<>>

\* C14: within one connection the commands are processed in arrival order
\* with no pipelining, whatever the other connections do: a request line is
\* read only when no earlier line is in hand and no response is waiting to be
\* flushed, the responses of a connection are written by its own handler
\* only, and every request line read is done with by the flush of exactly one
\* response, the response to that line, before the next readline; so the
\* responses match the request lines one to one and in order.
C14_OneResponsePerLineInOrder ==
    [][\A s \in Sessions :
          /\ ReadsLine(s) => (parts[s] = <<>> /\ out[s] = <<>>)
          /\ out'[s] # out[s] => pc'[s] # pc[s]
          /\ LineDone(s)
                => (/\ pc[s] = "drain"
                    /\ pc'[s] = "read"
                    /\ Len(out[s]) = 1
                    /\ out[s][1].kind \in Answers(CommandOf(parts[s])))]_vars

ListQueries == {LIST_CONNECTED, LIST_AUTHORIZED, LIST_ALL, LIST_DISKS}

\* What a LIST query is to return, read off the registry and the tables
Inventory(cmd) ==
    CASE cmd = LIST_CONNECTED ->
            {[vm_id |-> k,
              ram |-> current_vm[connected_vms[k]].ram,
              cpu |-> current_vm[connected_vms[k]].cpu,
              disks |-> current_vm[connected_vms[k]].disks,
              authorized |-> current_vm[connected_vms[k]].authorized] :
                k \in DOMAIN connected_vms}
      [] cmd = LIST_AUTHORIZED -> {r \in virtual_machines : r.authorized = TRUE}
      [] cmd = LIST_ALL -> virtual_machines
      [] OTHER ->
            {[disk_id |-> d.disk_id, capacity |-> d.capacity, vm_id |-> d.vm_id,
              vm_associated |-> IF d.vm_id \in {v.vm_id : v \in virtual_machines}
                                THEN d.vm_id ELSE Null] : d \in disks}

\* A step of session s in the handling of a LIST command of the wire
WireListStep(s) ==
    /\ pc[s] \in {"read", "fetch", "drain"}
    /\ pc'[s] # pc[s]
    /\ LET line == IF pc[s] = "read" THEN parts'[s] ELSE parts[s]
       IN  line # <<>> /\ CommandOf(line) \in ListQueries

\* A step of the console task
ConsoleStep == console'.pc # console.pc

StoreFails(s) ==
    /\ pc[s] \in {"upsert_vm", "upsert_disk", "fetch"}
    /\ pc'[s] = "closed"

\* C16: a store failure during a command ends only the handling loop of the
\* connection that issued it: that session's registry entry is removed and
\* its connection closed, nothing is written or retried (no store row
\* changes), and every other session keeps its bound identity and machine
\* fields, its registry entry and its place in its own handling.
C16_StoreFailureIsLocal ==
    [][\A s \in Sessions :
          StoreFails(s)
              => /\ \A k \in DOMAIN connected_vms' : connected_vms'[k] # s
                 /\ HasIdentity(s) => current_vm[s].vm_id \notin DOMAIN connected_vms'
                 /\ UNCHANGED <<virtual_machines, disks>>
                 /\ \A t \in Sessions \ {s} :
                       /\ current_vm'[t] = current_vm[t]
                       /\ pc'[t] = pc[t]
                       /\ out'[t] = out[t]
                       /\ \A k \in DOMAIN connected_vms :
                             connected_vms[k] = t
                                 => (/\ k \in DOMAIN connected_vms'
                                     /\ connected_vms'[k] = t)]_vars

\* C17: every session that is authenticated and idle between commands is
\* visible in the registry: the registry maps its bound id to its own machine
\* record, whatever AUTH, LOGOUT and disconnects the other sessions did, also
\* with the same id.
C17_IdleSessionIsRegistered ==
    \A s \in Sessions :
        (HasIdentity(s) /\ pc[s] = "read")
            => /\ current_vm[s].vm_id \in DOMAIN connected_vms
               /\ connected_vms[current_vm[s].vm_id] = s

\* The rows of disk d in a table of disks
RowsOf(table, d) == {r \in table : r.disk_id = d}

\* Session s performs a disk write of the upsert of an ADD_VM or UPDATE_VM
\* whose line names disk d in a well-formed token
WritesNamedDisk(s, d) ==
    /\ WritesDisk(s)
    /\ CommandOf(parts[s]) \in {ADD_VM, UPDATE_VM}
    /\ \E i \in 1..Len(DisksNamed(parts[s])) : DisksNamed(parts[s])[i][1] = d

\* C18: the owner and the capacity of a disk row change only through an
\* ADD_VM or UPDATE_VM that names the disk in a well-formed token: AUTH,
\* LOGOUT, the LIST queries and an UPDATE_VM with no well-formed disk token
\* leave every disk row as it is, so a disk reassigned to machine B does not
\* go back to machine A by a command of A that does not name it.
C18_DiskRowsChangeOnlyByNaming ==
    [][\A d \in {r.disk_id : r \in disks \cup disks'} :
          RowsOf(disks', d) # RowsOf(disks, d)
              => \E s \in Sessions : WritesNamedDisk(s, d)]_vars

\* C19: in every state (each is one another worker can observe) every machine
\* id in the registry, so every id LIST_CONNECTED shows, has a row in the
\* machines table, so LIST_ALL shows it: a machine is not visible as connected
\* before its AUTH upsert is persisted.
C19_ConnectedIsPersisted ==
    \A r \in list_connected_vms : \E v \in list_all_vms : v.vm_id = r.vm_id

\* Machine m has a row in the machines table
Persisted(m) == \E v \in virtual_machines : v.vm_id = m

\* Session s is in its AUTH between the registry insert and the return of
\* the machine upsert
InAuthUpsert(s) == pc[s] = "upsert_vm" /\ CommandOf(parts[s]) = AUTH

\* C19 as amended: AUTH registers the machine first and persists it next, so
\* an id is in the registry without a row only while the AUTH of the session
\* the entry belongs to awaits its machine upsert; every other id in the
\* registry, and the id of every session whose AUTH was confirmed, has a row
\* in the machines table, also when the store fails or two sessions use the
\* same id.
C19_PersistedOnceAuthReturns ==
    /\ \A k \in DOMAIN connected_vms :
          Persisted(k) \/ (InAuthUpsert(connected_vms[k]) /\ parts[connected_vms[k]][2] = k)
    /\ \A s \in Sessions :
          (HasIdentity(s) /\ ~InAuthUpsert(s)) => Persisted(current_vm[s].vm_id)

\* A client has just been sent a LIST_CONNECTED array that shows vm1 while
\* the machines table has no row of vm1: the AUTH of vm1 by another session
\* awaits its upsert
C19_Witness ==
    \E s, t \in Sessions :
        /\ InAuthUpsert(s)
        /\ current_vm[s].vm_id = vm1
        /\ ~Persisted(vm1)
        /\ pc[t] = "drain"
        /\ CommandOf(parts[t]) = LIST_CONNECTED
        /\ \E r \in out[t][1].rows : r.vm_id = vm1

\* C20: in every state of the store, the states between the writes of one
\* upsert and after a store failure in the middle of an upsert included, the
\* owner of every disk row is the id of a row of the machines table, so no
\* row LIST_DISKS returns, or has returned to a client, has a null
\* vm_associated.
C20_DiskOwnerExists ==
    /\ \A d \in disks : \E v \in virtual_machines : v.vm_id = d.vm_id
    /\ \A r \in list_all_disks : r.vm_associated # Null
    /\ \A s \in Sessions :
          (pc[s] = "drain" /\ CommandOf(parts[s]) = LIST_DISKS)
              => \A r \in out[s][1].rows : r.vm_associated # Null

\* A client has been sent the LIST_DISKS array while the disks table holds
\* the first disk of vm1's ADD_VM and not the second, with no upsert under
\* way: the store failed between the two disk writes
C20_Witness ==
    LET first == ParseDisks(<<d1_10, d1_20>>)[1]
    IN  /\ \A s \in Sessions : pc[s] \notin {"upsert_vm", "upsert_disk"}
        /\ \E t \in Sessions :
              /\ pc[t] = "drain"
              /\ CommandOf(parts[t]) = LIST_DISKS
              /\ \E r \in out[t][1].rows :
                    /\ r.disk_id = first[1]
                    /\ r.capacity = first[2]
                    /\ r.vm_id = vm1
                    /\ r.vm_associated = vm1

=============================================================================
